---- MODULE Spec2Model ----
(***************************************************************************)
(* A model of the key_value_db store: the paged block allocator            *)
(* (paging.rs), the block chain reader and writer (read_write.rs) and the  *)
(* record layer Database (lib.rs).  Page images, the file and every        *)
(* serialised structure are modelled byte for byte.                        *)
(***************************************************************************)
EXTENDS Integers, Sequences, FiniteSets, TLC

\* ------------------------------------------------------------------------
\* Program constants
\* ------------------------------------------------------------------------
PAGE_SIZE ==
  4096

BLOCK_SIZE ==
  64

PAGE_BLOCK_COUNT ==
  63

INVALID_BLOCK_INDEX ==
  PAGE_BLOCK_COUNT

INVALID_PAGE_INDEX ==
  -1

\* size_of::<BlockAddress>(): i32 + u8, padded to the i32's alignment
BLOCK_ADDRESS_SIZE ==
  8

BLOCK_DATA_SIZE ==
  BLOCK_SIZE - BLOCK_ADDRESS_SIZE

\* size_of::<RecordHeader>(): BlockAddress + i32 + i32
RECORD_HEADER_SIZE ==
  16

\* size_of::<DbSystemInfo>(): two BlockAddress; also the PagesHeader offset
SYSTEM_INFO_SIZE ==
  16

\* size_of::<PagesHeader>(): one i32
PAGES_HEADER_SIZE ==
  4

BlockState_Free ==
  0

BlockState_Busy ==
  1

\* ------------------------------------------------------------------------
\* Bounds of the model
\* ------------------------------------------------------------------------
\* number of Database::set calls in one behaviour
MaxSets ==
  2

\* number of chain writers created in one behaviour
MaxChains ==
  2

\* number of PageWriter::write calls in one behaviour
MaxWrites ==
  2

\* number of read and skip calls on one chain reader
MaxReaderCalls ==
  2

\* values the uninitialised padding bytes of a BlockAddress may hold
PadBytes ==
  {0, 170}

VARIABLES
  pad,           \* the padding bytes this build copies out of a BlockAddress
  file,          \* the file: length, system header, pages header, page images
  header,        \* PageManagerImpl.header.first_page_with_free_blocks
  cached_pages,  \* PageManagerImpl.cached_pages: page index -> Page
  system_info,   \* Database.system_info
  writer,        \* the live PageWriter, if any, and what was written through it
  reader,        \* the live PageReader, if any
  panicked,      \* a panic has unwound the running operation
  nsets,         \* number of set calls so far
  nwrites,       \* number of PageWriter::write calls so far
  result,        \* outcome of the last operation
  stored,        \* history: key -> value of the first set call of that key
  chains,        \* history: the chains of the writers dropped so far
  events,        \* history: what the last operation asked of the page manager
  accessors      \* the PageAccessors a direct user of the PageManager holds

vars ==
  <<pad, file, header, cached_pages, system_info, writer, reader, panicked,
    nsets, nwrites, result, stored, chains, events, accessors>>

\* ------------------------------------------------------------------------
\* utils.rs: raw struct <-> bytes copies (little-endian host)
\* ------------------------------------------------------------------------
Max(a, b) ==
  IF a >= b THEN a ELSE b

Min(a, b) ==
  IF a <= b THEN a ELSE b

\* byte i (0 = least significant) of a non-negative number below 2^31
ByteOf(u, i) ==
  IF i = 0 THEN u % 256
  ELSE IF i = 1 THEN (u \div 256) % 256
  ELSE IF i = 2 THEN (u \div 65536) % 256
  ELSE (u \div 16777216) % 256

\* the four bytes of an i32 in two's complement, least significant first
I32Bytes(n) ==
  IF n >= 0 THEN [i \in 1..4 |-> ByteOf(n, i - 1)]
  ELSE [i \in 1..4 |-> 255 - ByteOf(-(n + 1), i - 1)]

BytesI32(b) ==
  IF b[4] < 128 THEN b[1] + 256 * b[2] + 65536 * b[3] + 16777216 * b[4]
  ELSE -((255 - b[1]) + 256 * (255 - b[2]) + 65536 * (255 - b[3])
         + 16777216 * (255 - b[4])) - 1

BlockAddress_new(page_index, block_index) ==
  [page_index |-> page_index, block_index |-> block_index]

BlockAddress_invalid ==
  BlockAddress_new(INVALID_PAGE_INDEX, INVALID_BLOCK_INDEX)

\* write_structure(&BlockAddress): the five field bytes and three padding bytes
BlockAddressBytes(a) ==
  I32Bytes(a.page_index) \o <<a.block_index, pad, pad, pad>>

\* read_structure::<BlockAddress>(): the padding is not part of the value
BytesBlockAddress(b) ==
  BlockAddress_new(BytesI32(SubSeq(b, 1, 4)), b[5])

RecordHeader_new(next_record, key_size, data_size) ==
  [next_record |-> next_record, key_size |-> key_size, data_size |-> data_size]

RecordHeaderBytes(h) ==
  BlockAddressBytes(h.next_record) \o I32Bytes(h.key_size) \o I32Bytes(h.data_size)

BytesRecordHeader(b) ==
  RecordHeader_new(BytesBlockAddress(SubSeq(b, 1, 8)),
                   BytesI32(SubSeq(b, 9, 12)), BytesI32(SubSeq(b, 13, 16)))

DbSystemInfo_default ==
  [first_record |-> BlockAddress_invalid, last_record |-> BlockAddress_invalid]

DbSystemInfoBytes(s) ==
  BlockAddressBytes(s.first_record) \o BlockAddressBytes(s.last_record)

BytesDbSystemInfo(b) ==
  [first_record |-> BytesBlockAddress(SubSeq(b, 1, 8)),
   last_record |-> BytesBlockAddress(SubSeq(b, 9, 16))]

\* ------------------------------------------------------------------------
\* paging.rs: Page
\* ------------------------------------------------------------------------
ZeroBlock ==
  [i \in 1..BLOCK_SIZE |-> 0]

\* Page::new. blocks[b + 1][o + 1] is byte b * BLOCK_SIZE + o of Page.blocks
Page_new ==
  [first_free_block |-> 0,
   block_states |-> [i \in 1..PAGE_BLOCK_COUNT |-> BlockState_Free],
   blocks |-> [i \in 1..PAGE_BLOCK_COUNT |-> ZeroBlock]]

has_free_blocks(page) ==
  page.first_free_block # INVALID_BLOCK_INDEX

\* Page::get_block_data_range: the range start..end of Page.blocks, or a panic
get_block_data_range(index, offset, length) ==
  IF index >= PAGE_BLOCK_COUNT THEN [panic |-> TRUE, start |-> 0, end |-> 0]
  ELSE LET len == IF length > 0 THEN length ELSE BLOCK_SIZE
       IN  IF offset + len > BLOCK_SIZE THEN [panic |-> TRUE, start |-> 0, end |-> 0]
           ELSE [panic |-> FALSE,
                 start |-> index * BLOCK_SIZE + offset,
                 end |-> index * BLOCK_SIZE + offset + len]

\* &page.blocks[range]
BlocksSlice(page, range) ==
  LET b == range.start \div BLOCK_SIZE
      o == range.start % BLOCK_SIZE
  IN  SubSeq(page.blocks[b + 1], o + 1, o + (range.end - range.start))

\* Page::get_block_data
Page_get_block_data(page, index, offset, length) ==
  LET range == get_block_data_range(index, offset, length)
  IN  IF range.panic THEN [panic |-> TRUE, data |-> <<>>]
      ELSE [panic |-> FALSE, data |-> BlocksSlice(page, range)]

\* a scan that stops at its first index without looking at the state
NextFreeFrom_NoScan(block_states, from) ==
  from

\* the smallest Free index in from..PAGE_BLOCK_COUNT-1, else INVALID_BLOCK_INDEX
NextFreeFrom(block_states, from) ==
  LET free == {i \in from..(PAGE_BLOCK_COUNT - 1) : block_states[i + 1] = BlockState_Free}
  IN  IF free = {} THEN INVALID_BLOCK_INDEX
      ELSE CHOOSE i \in free : \A j \in free : i <= j

\* Page::set_block_data
Page_set_block_data(page, index, data, offset) ==
  LET range == get_block_data_range(index, offset, Len(data))
  IN  IF range.panic THEN [panic |-> TRUE, changed |-> FALSE, page |-> page]
      ELSE
      LET block_data == BlocksSlice(page, range)
      IN  IF block_data = data THEN [panic |-> FALSE, changed |-> FALSE, page |-> page]
          \* copy_from_slice panics when the lengths differ (data is empty)
          ELSE IF Len(block_data) # Len(data)
               THEN [panic |-> TRUE, changed |-> FALSE, page |-> page]
          ELSE
          LET old == page.blocks[index + 1]
              new == [i \in 1..BLOCK_SIZE |->
                        IF i > offset /\ i <= offset + Len(data)
                        THEN data[i - offset] ELSE old[i]]
              states == [page.block_states EXCEPT ![index + 1] = BlockState_Busy]
              first == IF index # page.first_free_block THEN page.first_free_block
                       ELSE NextFreeFrom(states, index)
          IN  [panic |-> FALSE, changed |-> TRUE,
               page |-> [first_free_block |-> first,
                         block_states |-> states,
                         blocks |-> [page.blocks EXCEPT ![index + 1] = new]]]

\* ------------------------------------------------------------------------
\* The file: File::metadata().len(), and the bytes by region
\* ------------------------------------------------------------------------
EmptyFile ==
  [len |-> 0,
   system_info |-> [i \in 1..SYSTEM_INFO_SIZE |-> 0],
   pages_header |-> [i \in 1..PAGES_HEADER_SIZE |-> 0],
   pages |-> <<>>]

\* PageManagerImpl.first_page_offset
first_page_offset ==
  SYSTEM_INFO_SIZE + PAGES_HEADER_SIZE

\* PageManagerImpl::get_page_address
get_page_address(index) ==
  first_page_offset + index * PAGE_SIZE

\* write_structure_to_pos(0, &DbSystemInfo)
FileWriteSystemInfo(f, bytes) ==
  [f EXCEPT !.system_info = bytes, !.len = Max(f.len, SYSTEM_INFO_SIZE)]

\* write_structure_to_pos(header_offset, &PagesHeader)
FileWritePagesHeader(f, bytes) ==
  [f EXCEPT !.pages_header = bytes, !.len = Max(f.len, first_page_offset)]

\* a page write that loses which blocks are taken
FileWritePage_StatesLost(f, index, page) ==
  LET n == Max(Len(f.pages), index + 1)
  IN  [f EXCEPT !.pages = [i \in 1..n |->
                            IF i = index + 1
                            THEN [Page_new EXCEPT !.blocks = page.blocks]
                            ELSE IF i <= Len(f.pages) THEN f.pages[i]
                            ELSE Page_new],
                !.len = Max(f.len, get_page_address(index) + PAGE_SIZE)]

\* write_structure_to_pos(get_page_address(index), &Page); a gap left before
\* the written range reads as zero bytes, which is the image of Page::new
FileWritePage(f, index, page) ==
  LET n == Max(Len(f.pages), index + 1)
  IN  [f EXCEPT !.pages = [i \in 1..n |->
                            IF i = index + 1 THEN page
                            ELSE IF i <= Len(f.pages) THEN f.pages[i]
                            ELSE Page_new],
                !.len = Max(f.len, get_page_address(index) + PAGE_SIZE)]

\* ------------------------------------------------------------------------
\* paging.rs: PageManagerImpl.  m = [file, header, cached_pages, panic,
\* events, borrowed]
\* ------------------------------------------------------------------------
IsCached(m, index) ==
  index \in DOMAIN m.cached_pages

\* history: one request to the page manager.  e is "get_page" (an accessor
\* is handed out), "search" (find_page_with_free_blocks runs from index),
\* "release" (an accessor is dropped) or "commit" (commit_page writes the
\* page); a search also records the pages whose first byte it read from the
\* file and the pages that were full in memory but not in the file, the
\* cached pages it borrowed (viewed) and the pages whose RefMut was alive
\* while it ran (held); "conflict" is a borrow that a RefCell refused
Event(e, index) ==
  [e |-> e, index |-> index, probed |-> {}, unsaved |-> {}, viewed |-> {},
   held |-> {}]

Logged(m, ev) ==
  [m EXCEPT !.events = Append(m.events, ev)]

\* the RefCells of the page manager: imp is TRUE while a RefMut of the
\* PageManagerImpl (Rc<RefCell<PageManagerImpl>>) is alive, pages holds the
\* pages whose RefMut<Page> (Rc<RefCell<Page>>) is alive
NoBorrows ==
  [imp |-> FALSE, pages |-> {}]

\* RefCell::borrow / borrow_mut on a cell that is already borrowed mutably:
\* the call panics (BorrowError, BorrowMutError)
Conflict(m, index) ==
  [Logged(m, Event("conflict", index)) EXCEPT !.panic = TRUE]

\* PageManagerImpl::new
PageManagerImpl_new(f) ==
  [file |-> f,
   header |-> IF f.len <= SYSTEM_INFO_SIZE THEN 0 ELSE BytesI32(f.pages_header),
   cached_pages |-> <<>>,
   panic |-> FALSE,
   events |-> <<>>,
   borrowed |-> NoBorrows]

\* PageManagerImpl::get_page (and PageManager::get_page around it)
get_page(m, index) ==
  IF m.borrowed.imp THEN Conflict(m, index)
  ELSE IF index < 0 THEN [m EXCEPT !.panic = TRUE]
  ELSE IF IsCached(m, index) THEN Logged(m, Event("get_page", index))
  ELSE LET new_page == IF m.file.len <= get_page_address(index) THEN Page_new
                       ELSE m.file.pages[index + 1]
       IN  [Logged(m, Event("get_page", index)) EXCEPT !.cached_pages =
              [i \in DOMAIN m.cached_pages \cup {index} |->
                 IF i = index THEN new_page ELSE m.cached_pages[i]]]

RECURSIVE find_page_with_free_blocks(_, _)
\* PageManagerImpl::find_page_with_free_blocks
find_page_with_free_blocks(m, start) ==
  IF IsCached(m, start) /\ has_free_blocks(m.cached_pages[start]) THEN start
  ELSE IF m.file.len <= get_page_address(start) THEN start
  ELSE IF m.file.pages[start + 1].first_free_block # INVALID_BLOCK_INDEX THEN start
  ELSE find_page_with_free_blocks(m, start + 1)

RECURSIVE ProbedPages(_, _)
\* the pages whose first_free_block byte find_page_with_free_blocks(m, start)
\* reads from the file (seek + read_u8)
ProbedPages(m, start) ==
  IF IsCached(m, start) /\ has_free_blocks(m.cached_pages[start]) THEN {}
  ELSE IF m.file.len <= get_page_address(start) THEN {}
  ELSE IF m.file.pages[start + 1].first_free_block # INVALID_BLOCK_INDEX THEN {start}
  ELSE {start} \cup ProbedPages(m, start + 1)

\* the cached pages that are full while the file does not say so
UnsavedFullPages(m) ==
  {i \in DOMAIN m.cached_pages :
     /\ ~has_free_blocks(m.cached_pages[i])
     /\ \/ m.file.len <= get_page_address(i)
        \/ m.file.pages[i + 1].first_free_block # INVALID_BLOCK_INDEX}

RECURSIVE SearchBorrows(_, _)
\* the cached pages that find_page_with_free_blocks(m, start) borrows to ask
\* has_free_blocks (page.as_ref().borrow())
SearchBorrows(m, start) ==
  IF IsCached(m, start) /\ has_free_blocks(m.cached_pages[start]) THEN {start}
  ELSE (IF IsCached(m, start) THEN {start} ELSE {})
       \cup (IF m.file.len <= get_page_address(start) THEN {}
             ELSE IF m.file.pages[start + 1].first_free_block # INVALID_BLOCK_INDEX
             THEN {}
             ELSE SearchBorrows(m, start + 1))

\* history of one call of find_page_with_free_blocks(m, start); the call
\* panics when it borrows a page whose RefMut is alive
Searched(m, start) ==
  LET ev == [e |-> "search", index |-> start, probed |-> ProbedPages(m, start),
             unsaved |-> UnsavedFullPages(m),
             viewed |-> SearchBorrows(m, start), held |-> m.borrowed.pages]
  IN  IF ev.viewed \cap ev.held # {} THEN Conflict(Logged(m, ev), start)
      ELSE Logged(m, ev)

\* an update that records the page after the one it is given
update_first_page_with_free_blocks_Past(m, index) ==
  [m EXCEPT !.header = index + 1,
            !.file = FileWritePagesHeader(m.file, I32Bytes(index + 1))]

\* PageManagerImpl::update_first_page_with_free_blocks
update_first_page_with_free_blocks(m, index) ==
  [m EXCEPT !.header = index,
            !.file = FileWritePagesHeader(m.file, I32Bytes(index))]

\* a commit whose search for the next page with free blocks starts at the
\* page being committed
commit_page_SearchSelf(m, index, page) ==
  LET m1 == [Logged(m, Event("commit", index)) EXCEPT
               !.file = FileWritePage(m.file, index, page)]
  IN  IF index = m1.header /\ ~has_free_blocks(page)
      THEN update_first_page_with_free_blocks(Searched(m1, index),
             find_page_with_free_blocks(m1, index + 1))
      ELSE IF has_free_blocks(page) /\ index < m1.header
      THEN update_first_page_with_free_blocks(m1, index)
      ELSE m1

\* PageManagerImpl::commit_page
commit_page(m, index, page) ==
  LET m1 == [Logged(m, Event("commit", index)) EXCEPT
               !.file = FileWritePage(m.file, index, page)]
  IN  IF index = m1.header /\ ~has_free_blocks(page)
      THEN update_first_page_with_free_blocks(Searched(m1, index + 1),
             find_page_with_free_blocks(m1, index + 1))
      ELSE IF has_free_blocks(page) /\ index < m1.header
      THEN update_first_page_with_free_blocks(m1, index)
      ELSE m1

\* ------------------------------------------------------------------------
\* paging.rs: PageAccessor = [index, has_changes] over cached_pages[index]
\* ------------------------------------------------------------------------
PageAccessor_new(index) ==
  [index |-> index, has_changes |-> FALSE]

\* PageManager::get_page_with_free_blocks: the cache after the call and the
\* accessor it returns
get_page_with_free_blocks(m, start_index) ==
  LET index == find_page_with_free_blocks(m, start_index)
  IN  IF m.borrowed.imp
      THEN [m |-> Conflict(m, start_index), acc |-> PageAccessor_new(start_index)]
      ELSE [m |-> get_page(Searched(m, start_index), index),
            acc |-> PageAccessor_new(index)]

\* PageAccessor::get_block_data
PageAccessor_get_block_data(m, acc, index, offset, length) ==
  Page_get_block_data(m.cached_pages[acc.index], index, offset, length)

\* PageAccessor::set_block_data
PageAccessor_set_block_data(m, acc, index, data, offset) ==
  LET r == Page_set_block_data(m.cached_pages[acc.index], index, data, offset)
  IN  IF acc.index \in m.borrowed.pages
      THEN [m |-> Conflict(m, acc.index), acc |-> acc]
      ELSE IF r.panic THEN [m |-> [m EXCEPT !.panic = TRUE], acc |-> acc]
      ELSE [m |-> [m EXCEPT !.cached_pages[acc.index] = r.page],
            acc |-> [acc EXCEPT !.has_changes = r.changed \/ acc.has_changes]]

\* a release that writes the page back whether or not it was changed
PageAccessor_commit_Always(m, acc) ==
  commit_page(Logged(m, Event("release", acc.index)), acc.index,
              m.cached_pages[acc.index])

\* PageAccessor::commit, which Drop for PageAccessor calls
PageAccessor_commit(m, acc) ==
  IF ~acc.has_changes THEN Logged(m, Event("release", acc.index))
  ELSE IF m.borrowed.imp \/ acc.index \in m.borrowed.pages
  THEN Conflict(Logged(m, Event("release", acc.index)), acc.index)
  ELSE [commit_page(
          [Logged(m, Event("release", acc.index)) EXCEPT
             !.borrowed = [imp |-> TRUE, pages |-> {acc.index}]],
          acc.index, m.cached_pages[acc.index])
        EXCEPT !.borrowed = m.borrowed]

\* ------------------------------------------------------------------------
\* read_write.rs: next-block pointers
\* ------------------------------------------------------------------------
\* set_next_block_address
set_next_block_address(m, acc, block_index, next_block_address) ==
  PageAccessor_set_block_data(m, acc, block_index,
                              BlockAddressBytes(next_block_address), BLOCK_DATA_SIZE)

\* get_next_block_address
get_next_block_address(m, acc, block_index) ==
  LET d == PageAccessor_get_block_data(m, acc, block_index, BLOCK_DATA_SIZE,
                                       BLOCK_ADDRESS_SIZE)
  IN  IF d.panic THEN [panic |-> TRUE, address |-> BlockAddress_invalid]
      ELSE [panic |-> FALSE, address |-> BytesBlockAddress(d.data)]

\* ------------------------------------------------------------------------
\* read_write.rs: PageReader.  c = [m, r] with
\* r = [current_page, block_index, block_offset]
\* ------------------------------------------------------------------------
\* PageReader::new
PageReader_new(m, start_address) ==
  [m |-> get_page(m, start_address.page_index),
   r |-> [current_page |-> PageAccessor_new(start_address.page_index),
          block_index |-> start_address.block_index,
          block_offset |-> 0]]

\* PageReader::go_to_next_block once the successor n of the block is read:
\* c after the call and the bool it returns
PageReader_go_to_next_block_to(c, n) ==
  IF n.panic THEN [m |-> [c.m EXCEPT !.panic = TRUE], r |-> c.r, ok |-> FALSE]
  ELSE IF n.address = BlockAddress_invalid THEN [m |-> c.m, r |-> c.r, ok |-> FALSE]
  ELSE
  LET m1 == IF n.address.page_index # c.r.current_page.index
            THEN PageAccessor_commit(get_page(c.m, n.address.page_index),
                                     c.r.current_page)
            ELSE c.m
      page1 == IF n.address.page_index # c.r.current_page.index
               THEN PageAccessor_new(n.address.page_index)
               ELSE c.r.current_page
  IN  IF m1.panic THEN [m |-> m1, r |-> c.r, ok |-> FALSE]
      ELSE [m |-> m1,
            r |-> [current_page |-> page1,
                   block_index |-> n.address.block_index,
                   block_offset |-> 0],
            ok |-> TRUE]

\* PageReader::go_to_next_block
PageReader_go_to_next_block(c) ==
  PageReader_go_to_next_block_to(c,
    get_next_block_address(c.m, c.r.current_page, c.r.block_index))

\* PageReader::copy_block once the block data d is taken: c after the call
\* and the bytes copied into the buffer of length len
PageReader_copy_block_from(c, len, d) ==
  IF d.panic \/ Len(d.data) # len
  THEN [m |-> [c.m EXCEPT !.panic = TRUE], r |-> c.r, data |-> <<>>]
  ELSE [m |-> c.m,
        r |-> [c.r EXCEPT !.block_offset = c.r.block_offset + len],
        data |-> d.data]

\* PageReader::copy_block with a buffer of length len
PageReader_copy_block(c, len) ==
  PageReader_copy_block_from(c, len,
    PageAccessor_get_block_data(c.m, c.r.current_page, c.r.block_index,
                                c.r.block_offset, len))

\* PageReader::read, the pass that returns: c1 is the reader after copy_block
\* took the st.left bytes the block still had to give
PageReader_read_last(st, c1) ==
  [m |-> c1.m, r |-> c1.r, left |-> 0, got |-> st.got \o c1.data,
   ret |-> Len(st.got) + st.left, done |-> TRUE]

\* PageReader::read, the end of a pass that emptied a block: got2 is what the
\* buffer holds, c2 the reader after go_to_next_block; when that returned
\* false the read returns read_bytes
PageReader_read_moved(st, got2, c2) ==
  [m |-> c2.m, r |-> c2.r,
   left |-> st.left - (BLOCK_DATA_SIZE - st.r.block_offset),
   got |-> got2, ret |-> Len(got2), done |-> c2.m.panic \/ ~c2.ok]

\* PageReader::read, a pass that empties a block: c1 is the reader after
\* copy_block took the rest of the block
PageReader_read_block(st, c1) ==
  IF c1.m.panic
  THEN [m |-> c1.m, r |-> c1.r, left |-> st.left, got |-> st.got,
        ret |-> 0, done |-> TRUE]
  ELSE PageReader_read_moved(st, st.got \o c1.data, PageReader_go_to_next_block(c1))

\* one pass of the while loop of PageReader::read.  st = [m, r, left, got,
\* ret, done]: left = data.len(), got = the bytes copied into buf so far
\* (read_bytes = Len(got)), ret = the count returned once done
PageReader_read_iter(st) ==
  IF st.left = 0 THEN [st EXCEPT !.ret = Len(st.got), !.done = TRUE]
  ELSE IF st.left <= BLOCK_DATA_SIZE - st.r.block_offset
  THEN PageReader_read_last(st, PageReader_copy_block([m |-> st.m, r |-> st.r], st.left))
  ELSE PageReader_read_block(st,
         PageReader_copy_block([m |-> st.m, r |-> st.r],
                               BLOCK_DATA_SIZE - st.r.block_offset))

RECURSIVE PageReader_read_iters(_, _)
\* up to n passes of the loop, stopping at the pass that returns
PageReader_read_iters(st, n) ==
  IF st.done \/ n = 0 THEN st
  ELSE IF n = 1 THEN PageReader_read_iter(st)
  ELSE LET s1 == PageReader_read_iters(st, n \div 2)
       IN  IF s1.done THEN s1 ELSE PageReader_read_iters(s1, n - n \div 2)

\* what PageReader::read leaves and returns when its loop ended in st
PageReader_read_result(st) ==
  [m |-> st.m, r |-> st.r, data |-> st.got, ret |-> st.ret]

\* PageReader::read with a buffer of length len: the reader after the call,
\* the bytes copied and the count returned.  Every pass but the last consumes
\* at least the rest of a block, so len \div BLOCK_DATA_SIZE + 2 passes suffice
PageReader_read(c, len) ==
  PageReader_read_result(
    PageReader_read_iters(
      [m |-> c.m, r |-> c.r, left |-> len, got |-> <<>>, ret |-> 0, done |-> FALSE],
      len \div BLOCK_DATA_SIZE + 2))

RECURSIVE read_exact_loop(_, _, _)
\* std::io::Read::read_exact after one read returned x; a read of 0 bytes
\* into a non-empty buffer is UnexpectedEof, which every caller unwraps
read_exact_next(x, left, got) ==
  IF x.m.panic THEN [m |-> x.m, r |-> x.r, data |-> got]
  ELSE IF x.ret = 0 THEN [m |-> [x.m EXCEPT !.panic = TRUE], r |-> x.r, data |-> got]
  ELSE read_exact_loop([m |-> x.m, r |-> x.r], left - x.ret, got \o x.data)

\* std::io::Read::read_exact over PageReader::read, left bytes still to read
read_exact_loop(c, left, got) ==
  IF left = 0 THEN [m |-> c.m, r |-> c.r, data |-> got]
  ELSE read_exact_next(PageReader_read(c, left), left, got)

read_exact(c, len) ==
  read_exact_loop(c, len, <<>>)

\* PageReader::skip, the end of a pass that left a block: c1 is the reader
\* after go_to_next_block
PageReader_skip_moved(st, c1) ==
  IF c1.m.panic \/ ~c1.ok
  THEN [m |-> c1.m, r |-> c1.r, skip_mut |-> st.skip_mut,
        err |-> ~c1.m.panic, done |-> TRUE]
  ELSE [m |-> c1.m, r |-> c1.r,
        skip_mut |-> st.skip_mut - (BLOCK_DATA_SIZE - st.r.block_offset),
        err |-> FALSE, done |-> FALSE]

\* a pass that moves the offset without looking at what the block has left
PageReader_skip_iter_Blind(st) ==
  [st EXCEPT !.r.block_offset = st.r.block_offset + st.skip_mut,
             !.done = TRUE]

\* one pass of the loop of PageReader::skip.  st = [m, r, skip_mut, err,
\* done]; err is the "Skip too big" error
PageReader_skip_iter(st) ==
  IF st.skip_mut <= BLOCK_DATA_SIZE - st.r.block_offset
  THEN [st EXCEPT !.r.block_offset = st.r.block_offset + st.skip_mut,
                  !.done = TRUE]
  ELSE PageReader_skip_moved(st, PageReader_go_to_next_block([m |-> st.m, r |-> st.r]))

RECURSIVE PageReader_skip_iters(_, _)
\* up to n passes of the loop, stopping at the pass that returns
PageReader_skip_iters(st, n) ==
  IF st.done \/ n = 0 THEN st
  ELSE IF n = 1 THEN PageReader_skip_iter(st)
  ELSE LET s1 == PageReader_skip_iters(st, n \div 2)
       IN  IF s1.done THEN s1 ELSE PageReader_skip_iters(s1, n - n \div 2)

\* what PageReader::skip leaves and returns when its loop ended in st
PageReader_skip_result(st) ==
  [m |-> st.m, r |-> st.r, err |-> st.err]

\* PageReader::skip: the reader after the call and whether it returned Err
PageReader_skip(c, skip) ==
  PageReader_skip_result(
    PageReader_skip_iters(
      [m |-> c.m, r |-> c.r, skip_mut |-> skip, err |-> FALSE, done |-> FALSE],
      skip \div BLOCK_DATA_SIZE + 2))

\* ------------------------------------------------------------------------
\* read_write.rs: PageWriter.  c = [m, w] with
\* w = [current_page, block_address, block_offset, start_address, filled];
\* filled is history: the block addresses the writer chose, in order
\* ------------------------------------------------------------------------
\* the writer whose accessor was written through with outcome x = [m, acc]
PageWriter_with(c, x) ==
  [m |-> x.m, w |-> [c.w EXCEPT !.current_page = x.acc]]

\* PageWriter::new once the page with free blocks g = [m, acc] is there and
\* start_address is its first free block
PageWriter_at(g, start_address) ==
  [m |-> g.m,
   w |-> [current_page |-> g.acc,
          block_address |-> start_address,
          block_offset |-> 0,
          start_address |-> start_address,
          filled |-> <<start_address>>]]

\* PageWriter::new once the page with free blocks g = [m, acc] is there
PageWriter_on(g) ==
  PageWriter_at(g, BlockAddress_new(g.acc.index,
                     g.m.cached_pages[g.acc.index].first_free_block))

\* PageWriter::new
PageWriter_new(m) ==
  PageWriter_on(get_page_with_free_blocks(m, 0))

\* PageWriter::copy_to_block, the block_offset after set_block_data returned
PageWriter_advance(c, n) ==
  IF c.m.panic THEN c ELSE [c EXCEPT !.w.block_offset = c.w.block_offset + n]

\* PageWriter::copy_to_block
PageWriter_copy_to_block(c, buf) ==
  PageWriter_advance(
    PageWriter_with(c, PageAccessor_set_block_data(c.m, c.w.current_page,
                         c.w.block_address.block_index, buf, c.w.block_offset)),
    Len(buf))

\* PageWriter::go_to_next_block, the patch of a previous block on another
\* page: x is the outcome of the write through the temporary accessor, which
\* is then dropped, also when the write panicked
PatchedThroughTemporary(x, cur) ==
  [m |-> PageAccessor_commit(x.m, x.acc), acc |-> cur]

\* PageWriter::go_to_next_block, from the patch of the previous block on:
\* m and cur are the page manager and current accessor after the new block
\* received its invalid pointer
PatchPreviousBlock(m, cur, prev_block_address, block_address) ==
  IF prev_block_address = BlockAddress_invalid THEN [m |-> m, acc |-> cur]
  ELSE IF prev_block_address.page_index = cur.index
  THEN set_next_block_address(m, cur, prev_block_address.block_index, block_address)
  ELSE PatchedThroughTemporary(
         set_next_block_address(get_page(m, prev_block_address.page_index),
                                PageAccessor_new(prev_block_address.page_index),
                                prev_block_address.block_index, block_address),
         cur)

\* PageWriter::go_to_next_block, the assignment of the page g = [m, acc]
\* with free blocks to current_page; it drops the old accessor once the new
\* one exists
PageWriter_replace_page(c, g) ==
  [m |-> PageAccessor_commit(g.m, c.w.current_page),
   w |-> [c.w EXCEPT !.current_page = g.acc]]

\* PageWriter::go_to_next_block, the choice of the page of the next block
PageWriter_next_page(c) ==
  IF has_free_blocks(c.m.cached_pages[c.w.current_page.index]) THEN c
  ELSE PageWriter_replace_page(c,
         get_page_with_free_blocks(c.m, c.w.current_page.index + 1))

\* PageWriter::go_to_next_block, the move to block_address, which receives
\* the invalid pointer
PageWriter_enter_block(c, block_address) ==
  PageWriter_with(
    [c EXCEPT !.w.block_offset = 0,
              !.w.block_address = block_address,
              !.w.filled = Append(c.w.filled, block_address)],
    set_next_block_address(c.m, c.w.current_page, block_address.block_index,
                           BlockAddress_invalid))

\* PageWriter::go_to_next_block, the end: the pointer of the previous block
\* and the start_address
PageWriter_link_previous(c, prev_block_address) ==
  IF c.m.panic THEN c
  ELSE [PageWriter_with(c, PatchPreviousBlock(c.m, c.w.current_page,
                             prev_block_address, c.w.block_address))
          EXCEPT !.w.start_address =
                    IF c.w.start_address = BlockAddress_invalid
                    THEN c.w.block_address ELSE c.w.start_address]

\* PageWriter::go_to_next_block, the move to the first free block of the
\* current page
PageWriter_enter_free_block(c) ==
  PageWriter_enter_block(c,
    BlockAddress_new(c.w.current_page.index,
                     c.m.cached_pages[c.w.current_page.index].first_free_block))

\* PageWriter::go_to_next_block
PageWriter_go_to_next_block(c) ==
  PageWriter_link_previous(PageWriter_enter_free_block(PageWriter_next_page(c)),
                           c.w.block_address)

\* the state of the loop of PageWriter::write: the writer, data = buf[pos..],
\* and whether the call has ended
WriteState(c, pos, done) ==
  [m |-> c.m, w |-> c.w, pos |-> pos, done |-> done]

\* PageWriter::write, the end of a pass that filled a block: c2 is the writer
\* after go_to_next_block
PageWriter_write_moved(c2, pos) ==
  WriteState(c2, pos, c2.m.panic)

\* PageWriter::write, a pass that fills a block: c1 is the writer after
\* copy_to_block, pos and next_pos the start of data before and after it
PageWriter_write_block(c1, pos, next_pos) ==
  IF c1.m.panic THEN WriteState(c1, pos, TRUE)
  ELSE PageWriter_write_moved(PageWriter_go_to_next_block(c1), next_pos)

\* one pass of the loop of PageWriter::write.  st = [m, w, pos, done] with
\* data = buf[pos..]
PageWriter_write_iter(st, buf) ==
  IF Len(buf) - st.pos <= BLOCK_DATA_SIZE - st.w.block_offset
  THEN WriteState(
         PageWriter_copy_to_block([m |-> st.m, w |-> st.w],
                                  SubSeq(buf, st.pos + 1, Len(buf))),
         Len(buf), TRUE)
  \* the source copies &buf[..remaining_block_space], not &data[..]
  ELSE PageWriter_write_block(
         PageWriter_copy_to_block([m |-> st.m, w |-> st.w],
                                  SubSeq(buf, 1, BLOCK_DATA_SIZE - st.w.block_offset)),
         st.pos, st.pos + (BLOCK_DATA_SIZE - st.w.block_offset))

RECURSIVE PageWriter_write_iters(_, _, _)
\* up to n passes of the loop, stopping at the pass that returns
PageWriter_write_iters(st, buf, n) ==
  IF st.done \/ n = 0 THEN st
  ELSE IF n = 1 THEN PageWriter_write_iter(st, buf)
  ELSE LET s1 == PageWriter_write_iters(st, buf, n \div 2)
       IN  IF s1.done THEN s1 ELSE PageWriter_write_iters(s1, buf, n - n \div 2)

\* the writer when the loop of PageWriter::write ended in st
PageWriter_of(st) ==
  [m |-> st.m, w |-> st.w]

\* PageWriter::write; it returns Ok(buf.len()) whenever it returns.  Every
\* pass but the last consumes the rest of a block, so
\* Len(buf) \div BLOCK_DATA_SIZE + 2 passes suffice
PageWriter_write(c, buf) ==
  PageWriter_of(PageWriter_write_iters(WriteState(c, 0, FALSE), buf,
                                       Len(buf) \div BLOCK_DATA_SIZE + 2))

\* std::io::Write::write_all over PageWriter::write: no call for an empty buf
write_all(c, buf) ==
  IF buf = <<>> THEN c ELSE PageWriter_write(c, buf)

\* PageWriter::flush_final_block
PageWriter_flush_final_block(c) ==
  PageWriter_with(c, set_next_block_address(c.m, c.w.current_page,
                       c.w.block_address.block_index, BlockAddress_invalid))

\* Drop for PageWriter once flush_final_block left c1, then the drop of the
\* current_page accessor; a panic inside flush_final_block while already
\* unwinding aborts the process
PageWriter_dropped(c, c1) ==
  IF c1.m.panic /\ c.m.panic THEN c.m
  ELSE IF c1.m.panic THEN PageAccessor_commit(c1.m, c1.w.current_page)
  ELSE [PageAccessor_commit(c1.m, c1.w.current_page) EXCEPT !.panic = c.m.panic]

\* Drop for PageWriter
PageWriter_drop(c) ==
  PageWriter_dropped(c,
    PageWriter_flush_final_block([m |-> [c.m EXCEPT !.panic = FALSE], w |-> c.w]))

\* ------------------------------------------------------------------------
\* lib.rs: Database
\* ------------------------------------------------------------------------
\* key_slice.eq(&key_bytes)
key_matches(key_slice, key_bytes) ==
  key_slice = key_bytes

\* Database::find returning None, the page manager being m
NotFound(m) ==
  [m |-> m, found |-> FALSE, header |-> RecordHeader_new(BlockAddress_invalid, 0, 0),
   address |-> BlockAddress_invalid]

RECURSIVE find_loop(_, _, _)
\* Database::find, a record of the key's length: k is the reader after the
\* key was read
find_key(k, record_header, record_address, key_bytes) ==
  IF k.m.panic THEN NotFound(k.m)
  ELSE IF key_matches(k.data, key_bytes)
  THEN [m |-> k.m, found |-> TRUE, header |-> record_header,
        address |-> record_address]
  ELSE find_loop(k.m, record_header.next_record, key_bytes)

\* Database::find, a record whose header was read by the reader h
find_record(h, record_header, record_address, key_bytes) ==
  IF record_header.key_size = Len(key_bytes)
  THEN find_key(read_exact([m |-> h.m, r |-> h.r], record_header.key_size),
                record_header, record_address, key_bytes)
  ELSE find_loop(h.m, record_header.next_record, key_bytes)

\* Database::find, a record once read_structure::<RecordHeader> left h
find_header(h, record_address, key_bytes) ==
  IF h.m.panic THEN NotFound(h.m)
  ELSE find_record(h, BytesRecordHeader(h.data), record_address, key_bytes)

\* Database::find, a record once PageReader::new left c0
find_reader(c0, record_address, key_bytes) ==
  IF c0.m.panic THEN NotFound(c0.m)
  ELSE find_header(read_exact(c0, RECORD_HEADER_SIZE), record_address, key_bytes)

\* the loop of Database::find from record_address on
find_loop(m, record_address, key_bytes) ==
  IF record_address = BlockAddress_invalid THEN NotFound(m)
  ELSE find_reader(PageReader_new(m, record_address), record_address, key_bytes)

\* Database::find
find(m, si, key_bytes) ==
  find_loop(m, si.first_record, key_bytes)

\* Database::write_system_info
write_system_info(m, si) ==
  [m EXCEPT !.file = FileWriteSystemInfo(m.file, DbSystemInfoBytes(si))]

\* a write_all that is not reached when an earlier one panicked
write_all_next(c, buf) ==
  IF c.m.panic THEN c ELSE write_all(c, buf)

\* Database::set, the end of the block that writes the new record: the page
\* manager after the writer c is dropped, the writer's start_address and its
\* history
RecordWritten(c) ==
  [m |-> PageWriter_drop(c),
   start_address |-> c.w.start_address,
   filled |-> c.w.filled]

\* Database::set, the block that writes the new record
WriteRecord(m, key_bytes, data) ==
  RecordWritten(
    write_all_next(
      write_all_next(
        write_all(PageWriter_new(m),
                  RecordHeaderBytes(RecordHeader_new(BlockAddress_invalid,
                                                     Len(key_bytes), Len(data)))),
        key_bytes),
      data))

\* Database::set, the patch of the previous tail record's next_record
PatchLastRecord(m, last_record, new_record_address) ==
  IF last_record = BlockAddress_invalid THEN m
  ELSE
  LET m1 == get_page(m, last_record.page_index)
      page == PageAccessor_new(last_record.page_index)
  IN  IF m1.panic THEN m1
      ELSE
      LET d == PageAccessor_get_block_data(m1, page, last_record.block_index, 0,
                                           RECORD_HEADER_SIZE)
      IN  IF d.panic THEN [m1 EXCEPT !.panic = TRUE]
          ELSE
          LET hdr == BytesRecordHeader(d.data)
              buffer == RecordHeaderBytes(RecordHeader_new(new_record_address,
                                            hdr.key_size, hdr.data_size))
              x == PageAccessor_set_block_data(m1, page, last_record.block_index,
                                               buffer, 0)
          IN  PageAccessor_commit(x.m, x.acc)

\* what Database::set leaves: the page manager, the system header, whether a
\* record was written, and the chain of the writer w
SetResult(m, si, written, w) ==
  [m |-> m, system_info |-> si, written |-> written,
   start_address |-> w.start_address, filled |-> w.filled]

\* Database::set, the system header with the record at new_record_address
\* as its last, and as its first when it had none
NextSystemInfo(si, new_record_address) ==
  [last_record |-> new_record_address,
   first_record |-> IF si.first_record = BlockAddress_invalid
                    THEN new_record_address ELSE si.first_record]

\* Database::set, the system header once the record w is linked
set_system_info(m2, si, si2, w) ==
  IF m2.panic THEN SetResult(m2, si, FALSE, w)
  ELSE SetResult(write_system_info(m2, si2), si2, TRUE, w)

\* Database::set, the link from the previous tail once the record w is written
set_link(w, si) ==
  IF w.m.panic THEN SetResult(w.m, si, FALSE, w)
  ELSE set_system_info(PatchLastRecord(w.m, si.last_record, w.start_address),
                       si, NextSystemInfo(si, w.start_address), w)

\* Database::set once find returned f
set_found(f, si, key_bytes, data) ==
  IF f.m.panic \/ f.found
  THEN SetResult(f.m, si, FALSE, [start_address |-> BlockAddress_invalid, filled |-> <<>>])
  ELSE set_link(WriteRecord(f.m, key_bytes, data), si)

\* Database::set: the page manager, the system header and the chain written
Database_set(m, si, key_bytes, data) ==
  set_found(find(m, si, key_bytes), si, key_bytes, data)

\* what Database::get leaves and returns: None
GetNone(m) ==
  [m |-> m, some |-> FALSE, value |-> <<>>]

\* Database::get once read_exact left d
get_value(d) ==
  IF d.m.panic THEN GetNone(d.m) ELSE [m |-> d.m, some |-> TRUE, value |-> d.data]

\* Database::get once skip left c1
get_read(c1, record_header) ==
  IF c1.m.panic \/ c1.err THEN GetNone([c1.m EXCEPT !.panic = TRUE])
  ELSE get_value(read_exact([m |-> c1.m, r |-> c1.r], record_header.data_size))

\* Database::get once PageReader::new left c0
get_skip(c0, record_header) ==
  IF c0.m.panic THEN GetNone(c0.m)
  ELSE get_read(PageReader_skip(c0, RECORD_HEADER_SIZE + record_header.key_size),
                record_header)

\* Database::get once find returned f
get_found(f) ==
  IF f.m.panic \/ ~f.found THEN GetNone(f.m)
  ELSE get_skip(PageReader_new(f.m, f.address), f.header)

\* Database::get: the page manager after the call and Some(value) or None
Database_get(m, si, key_bytes) ==
  get_found(find(m, si, key_bytes))

\* Database::new on the file f (initialize when the file is empty)
Database_new(f) ==
  LET m0 == PageManagerImpl_new(f)
      m1 == IF f.len = 0 THEN write_system_info(m0, DbSystemInfo_default) ELSE m0
  IN  [m |-> m1, system_info |-> BytesDbSystemInfo(m1.file.system_info)]

\* ------------------------------------------------------------------------
\* Inputs
\* ------------------------------------------------------------------------
\* n bytes counting up from first
Ramp(n, first) ==
  [i \in 1..n |-> (first + i - 1) % 256]

\* n bytes of a key: printable ASCII, as in a str
KeyRamp(n) ==
  [i \in 1..n |-> 33 + ((i - 1) % 90)]

\* a key of three blocks
LongKey ==
  KeyRamp(2 * BLOCK_DATA_SIZE - RECORD_HEADER_SIZE + 1)

\* another key as long as LongKey: its second block repeats the start of the key
AliasKey ==
  SubSeq(LongKey, 1, BLOCK_DATA_SIZE - RECORD_HEADER_SIZE)
    \o SubSeq(LongKey, 1, BLOCK_DATA_SIZE)
    \o SubSeq(LongKey, 2 * BLOCK_DATA_SIZE - RECORD_HEADER_SIZE + 1, Len(LongKey))

\* "k"; a key that ends the first block exactly; the keys of three blocks
Keys ==
  {<<107>>, KeyRamp(BLOCK_DATA_SIZE - RECORD_HEADER_SIZE), LongKey, AliasKey}

\* a value that, with a one-byte key, fills all blocks of a page but one
BigValue ==
  Ramp((PAGE_BLOCK_COUNT - 1) * BLOCK_DATA_SIZE - RECORD_HEADER_SIZE - 1, 1)

\* the empty value, a value of three blocks, a value of a page
Values ==
  {<<>>, Ramp(2 * BLOCK_DATA_SIZE - RECORD_HEADER_SIZE, 1), BigValue}

\* ------------------------------------------------------------------------
\* The store as a state machine
\* ------------------------------------------------------------------------
\* the page manager of the state
PM ==
  [file |-> file, header |-> header, cached_pages |-> cached_pages, panic |-> FALSE,
   events |-> <<>>, borrowed |-> NoBorrows]

\* the outcome of an operation: its name, its arguments, what it returned;
\* for a set, prev = "open" when the operation before it opened the store
NoResult ==
  [op |-> "none", key |-> <<>>, n |-> 0, ok |-> FALSE, value |-> <<>>,
   prev |-> "none"]

NoWriter ==
  [alive |-> FALSE,
   w |-> [current_page |-> PageAccessor_new(0),
          block_address |-> BlockAddress_invalid, block_offset |-> 0,
          start_address |-> BlockAddress_invalid, filled |-> <<>>],
   data |-> <<>>, calls |-> 0]

NoReader ==
  [alive |-> FALSE,
   r |-> [current_page |-> PageAccessor_new(0), block_index |-> 0, block_offset |-> 0],
   chain |-> 0, calls |-> 0]

\* history entry of a dropped writer: its start_address, the blocks it chose
\* in order, the bytes and the number of write calls it was given, whether a
\* call panicked
ChainEntry(start_address, filled, data, calls, failed) ==
  [start_address |-> start_address, filled |-> filled, data |-> data,
   calls |-> calls, failed |-> failed]

Init ==
  /\ pad \in PadBytes
  /\ \E db \in {Database_new(EmptyFile)} :
         /\ file = db.m.file
         /\ header = db.m.header
         /\ cached_pages = db.m.cached_pages
         /\ system_info = db.system_info
  /\ writer = NoWriter
  /\ reader = NoReader
  /\ panicked = FALSE
  /\ nsets = 0
  /\ nwrites = 0
  /\ result = NoResult
  /\ stored = <<>>
  /\ chains = <<>>
  /\ events = <<>>
  /\ accessors = <<>>

\* db.set(key, data)
Set(key, data) ==
  /\ ~panicked
  /\ nsets < MaxSets
  /\ \E s \in {Database_set(PM, system_info, key, data)} :
         /\ file' = s.m.file
         /\ header' = s.m.header
         /\ cached_pages' = s.m.cached_pages
         /\ events' = s.m.events
         /\ system_info' = s.system_info
         /\ panicked' = s.m.panic
         /\ result' = [op |-> "set", key |-> key, n |-> 0, ok |-> s.written,
                       value |-> data,
                       prev |-> IF result.op = "open" THEN "open" ELSE "none"]
         /\ stored' = IF s.written /\ key \notin DOMAIN stored
                      THEN [k \in DOMAIN stored \cup {key} |->
                              IF k = key THEN data ELSE stored[k]]
                      ELSE stored
         /\ chains' = IF s.filled # <<>>
                      THEN Append(chains,
                             ChainEntry(s.start_address, s.filled,
                               RecordHeaderBytes(RecordHeader_new(
                                 BlockAddress_invalid, Len(key), Len(data)))
                                 \o key \o data,
                               1 + (IF key = <<>> THEN 0 ELSE 1)
                                 + (IF data = <<>> THEN 0 ELSE 1),
                               ~s.written))
                      ELSE chains
  /\ nsets' = nsets + 1
  /\ UNCHANGED <<pad, accessors, writer, reader, nwrites>>

\* db.get(key)
Get(key) ==
  /\ ~panicked
  /\ \E g \in {Database_get(PM, system_info, key)} :
         /\ file' = g.m.file
         /\ header' = g.m.header
         /\ cached_pages' = g.m.cached_pages
         /\ events' = g.m.events
         /\ panicked' = g.m.panic
         /\ result' = [op |-> "get", key |-> key, n |-> 0, ok |-> g.some,
                       value |-> g.value, prev |-> "none"]
  /\ UNCHANGED <<pad, accessors, system_info, writer, reader, nsets, nwrites, stored, chains>>

\* the Database is dropped and Database::new opens the same file again
Reopen ==
  /\ ~panicked
  /\ \E db \in {Database_new(file)} :
         /\ file' = db.m.file
         /\ header' = db.m.header
         /\ cached_pages' = db.m.cached_pages
         /\ events' = db.m.events
         /\ system_info' = db.system_info
  /\ result' = [NoResult EXCEPT !.op = "open"]
  /\ UNCHANGED <<pad, accessors, writer, reader, panicked, nsets, nwrites, stored, chains>>

Next ==
  \/ \E key \in Keys, data \in Values : Set(key, data)
  \/ \E key \in Keys : Get(key)
  \/ Reopen

Spec ==
  Init /\ [][Next]_vars

\* ------------------------------------------------------------------------
\* The chain writer and reader driven directly over a PageManager
\* ------------------------------------------------------------------------
\* n zero bytes
Zeros(n) ==
  [i \in 1..n |-> 0]

\* the buffers given to PageWriter::write: empty; one block exactly; one
\* block and a byte, all zero; three blocks; a page and a byte
Bufs ==
  {<<>>, Ramp(BLOCK_DATA_SIZE, 1), Zeros(BLOCK_DATA_SIZE + 1),
   Ramp(2 * BLOCK_DATA_SIZE + 1, 1),
   Ramp(PAGE_BLOCK_COUNT * BLOCK_DATA_SIZE + 1, 1)}

\* the lengths given to PageReader::read and PageReader::skip: a block and
\* a byte; a block, and all blocks of a page
ReadLens ==
  {BLOCK_DATA_SIZE + 1}

SkipLens ==
  {BLOCK_DATA_SIZE, PAGE_BLOCK_COUNT * BLOCK_DATA_SIZE}

\* PageManager::new(file, offset) on an empty file, no Database around it
InitChain ==
  /\ pad \in PadBytes
  /\ \E m \in {PageManagerImpl_new(EmptyFile)} :
         /\ file = m.file
         /\ header = m.header
         /\ cached_pages = m.cached_pages
  /\ system_info = DbSystemInfo_default
  /\ writer = NoWriter
  /\ reader = NoReader
  /\ panicked = FALSE
  /\ nsets = 0
  /\ nwrites = 0
  /\ result = NoResult
  /\ stored = <<>>
  /\ chains = <<>>
  /\ events = <<>>
  /\ accessors = <<>>

\* the page manager and the history after a writer has been dropped
DropWriter(c, wr) ==
  /\ \E m \in {PageWriter_drop(c)} :
         /\ file' = m.file
         /\ header' = m.header
         /\ cached_pages' = m.cached_pages
         /\ events' = m.events
         /\ panicked' = m.panic
  /\ writer' = NoWriter
  /\ chains' = Append(chains, ChainEntry(wr.w.start_address, c.w.filled, wr.data,
                                         wr.calls, c.m.panic))

\* PageWriter::new(&mut page_manager)
NewWriter ==
  /\ ~panicked /\ ~writer.alive /\ ~reader.alive
  /\ Len(chains) < MaxChains
  /\ \E c \in {PageWriter_new(PM)} :
         /\ file' = c.m.file
         /\ header' = c.m.header
         /\ cached_pages' = c.m.cached_pages
         /\ events' = c.m.events
         /\ writer' = [alive |-> TRUE, w |-> c.w, data |-> <<>>, calls |-> 0]
  /\ result' = [NoResult EXCEPT !.op = "new_writer"]
  /\ UNCHANGED <<pad, accessors, system_info, reader, panicked, nsets, nwrites, stored, chains>>

\* writer.write(buf); a panic unwinds through the drop of the writer
Write(buf) ==
  /\ ~panicked /\ writer.alive
  /\ nwrites < MaxWrites
  /\ nwrites' = nwrites + 1
  /\ result' = [op |-> "write", key |-> <<>>, n |-> Len(buf), ok |-> TRUE,
                value |-> buf, prev |-> "none"]
  /\ \E c \in {PageWriter_write([m |-> PM, w |-> writer.w], buf)} :
       LET wr == [alive |-> TRUE, w |-> c.w, data |-> writer.data \o buf,
                  calls |-> writer.calls + 1]
       IN  IF c.m.panic
           THEN DropWriter(c, wr)
           ELSE /\ file' = c.m.file
                /\ header' = c.m.header
                /\ cached_pages' = c.m.cached_pages
                /\ events' = c.m.events
                /\ writer' = wr
                /\ UNCHANGED <<panicked, chains>>
  /\ UNCHANGED <<pad, accessors, system_info, reader, nsets, stored>>

\* writer.flush()
Flush ==
  /\ ~panicked /\ writer.alive
  /\ result' = [NoResult EXCEPT !.op = "flush"]
  /\ \E c \in {PageWriter_flush_final_block([m |-> PM, w |-> writer.w])} :
       IF c.m.panic
       THEN DropWriter(c, writer)
       ELSE /\ file' = c.m.file
            /\ header' = c.m.header
            /\ cached_pages' = c.m.cached_pages
            /\ events' = c.m.events
            /\ writer' = [writer EXCEPT !.w = c.w]
            /\ UNCHANGED <<panicked, chains>>
  /\ UNCHANGED <<pad, accessors, system_info, reader, nsets, nwrites, stored>>

\* the writer goes out of scope
Release ==
  /\ ~panicked /\ writer.alive
  /\ result' = [NoResult EXCEPT !.op = "release"]
  /\ DropWriter([m |-> PM, w |-> writer.w], writer)
  /\ UNCHANGED <<pad, accessors, system_info, reader, nsets, nwrites, stored>>

\* PageReader::new(&mut page_manager, start_address of chain i); readers are
\* started on the chain written last
NewReader(i) ==
  /\ ~panicked /\ ~writer.alive /\ ~reader.alive
  /\ \E c \in {PageReader_new(PM, chains[i].start_address)} :
         /\ file' = c.m.file
         /\ header' = c.m.header
         /\ cached_pages' = c.m.cached_pages
         /\ events' = c.m.events
         /\ panicked' = c.m.panic
         /\ reader' = IF c.m.panic THEN NoReader
                      ELSE [alive |-> TRUE, r |-> c.r, chain |-> i, calls |-> 0]
  /\ result' = [NoResult EXCEPT !.op = "new_reader"]
  /\ UNCHANGED <<pad, accessors, system_info, writer, nsets, nwrites, stored, chains>>

\* reader.read(buf) with a buffer of n bytes
Read(n) ==
  /\ ~panicked /\ reader.alive
  /\ reader.calls < MaxReaderCalls
  /\ \E x \in {PageReader_read([m |-> PM, r |-> reader.r], n)} :
         /\ file' = x.m.file
         /\ header' = x.m.header
         /\ cached_pages' = x.m.cached_pages
         /\ events' = x.m.events
         /\ panicked' = x.m.panic
         /\ reader' = IF x.m.panic THEN NoReader
                      ELSE [reader EXCEPT !.r = x.r, !.calls = reader.calls + 1]
         /\ result' = [op |-> "read", key |-> <<>>, n |-> n, ok |-> ~x.m.panic,
                       value |-> x.data, prev |-> "none"]
  /\ UNCHANGED <<pad, accessors, system_info, writer, nsets, nwrites, stored, chains>>

\* reader.skip(n)
Skip(n) ==
  /\ ~panicked /\ reader.alive
  /\ reader.calls < MaxReaderCalls
  /\ \E x \in {PageReader_skip([m |-> PM, r |-> reader.r], n)} :
         /\ file' = x.m.file
         /\ header' = x.m.header
         /\ cached_pages' = x.m.cached_pages
         /\ events' = x.m.events
         /\ panicked' = x.m.panic
         /\ reader' = IF x.m.panic THEN NoReader
                      ELSE [reader EXCEPT !.r = x.r, !.calls = reader.calls + 1]
         /\ result' = [op |-> "skip", key |-> <<>>, n |-> n,
                       ok |-> ~x.m.panic /\ ~x.err, value |-> <<>>,
                       prev |-> "none"]
  /\ UNCHANGED <<pad, accessors, system_info, writer, nsets, nwrites, stored, chains>>

\* the reader goes out of scope and its accessor is dropped
DropReader ==
  /\ ~panicked /\ reader.alive
  /\ \E m \in {PageAccessor_commit(PM, reader.r.current_page)} :
         /\ file' = m.file
         /\ header' = m.header
         /\ cached_pages' = m.cached_pages
         /\ events' = m.events
  /\ reader' = NoReader
  /\ result' = [NoResult EXCEPT !.op = "drop_reader"]
  /\ UNCHANGED <<pad, accessors, system_info, writer, panicked, nsets, nwrites,
                 stored, chains>>

NextChain ==
  \/ NewWriter
  \/ \E buf \in Bufs : Write(buf)
  \/ Flush
  \/ Release
  \/ \E i \in {Len(chains)} \ {0} : NewReader(i)
  \/ \E n \in ReadLens : Read(n)
  \/ \E n \in SkipLens : Skip(n)
  \/ DropReader

ChainSpec ==
  InitChain /\ [][NextChain]_vars

\* ------------------------------------------------------------------------
\* The PageManager driven directly: accessors taken, written through and
\* released in any order
\* ------------------------------------------------------------------------
\* number of accessors handed out in one behaviour
MaxAccessors ==
  2

\* number of PageAccessor::set_block_data calls in one behaviour
MaxBlockWrites ==
  2

\* the page indexes asked for
PageIndexes ==
  0..1

\* set_block_data through the accessor x.acc: a whole block written to the
\* first free block of its page
FillBlock(x) ==
  PageAccessor_set_block_data(x.m, x.acc,
    x.m.cached_pages[x.acc.index].first_free_block, Ramp(BLOCK_SIZE, 1), 0)

RECURSIVE FillBlocks(_, _)
\* n such calls, as long as none panics
FillBlocks(x, n) ==
  IF n = 0 THEN x
  ELSE IF n = 1 THEN FillBlock(x)
  ELSE LET half == FillBlocks(x, n \div 2)
       IN  IF half.m.panic THEN half ELSE FillBlocks(half, n - n \div 2)

\* the page manager after an earlier run took page 0, wrote all of its
\* blocks but the last and released it
AlmostFull ==
  LET x == FillBlocks(get_page_with_free_blocks(PageManagerImpl_new(EmptyFile), 0),
                      PAGE_BLOCK_COUNT - 1)
  IN  PageAccessor_commit(x.m, x.acc)

\* the files a PageManager is opened on: a new one, and the one left by the
\* earlier run
StartFiles ==
  {EmptyFile, AlmostFull.file}

\* the (data, offset) pairs given to set_block_data: a whole block; a payload
\* of zero bytes
BlockWrites ==
  {<<Ramp(BLOCK_SIZE, 1), 0>>, <<Zeros(BLOCK_DATA_SIZE), 0>>}

\* an accessor in the hands of the user: held until released; history: calls
\* = the set_block_data calls made through it, wrote = one of them changed a
\* byte of the page
Held(acc) ==
  [acc |-> acc, held |-> TRUE, calls |-> 0, wrote |-> FALSE]

\* PageManager::new(file, offset) on one of the files; no BlockAddress is
\* copied by these calls, so the padding plays no part
InitPages ==
  /\ pad = 0
  /\ \E f \in StartFiles :
       \E m \in {PageManagerImpl_new(f)} :
         /\ file = m.file
         /\ header = m.header
         /\ cached_pages = m.cached_pages
  /\ system_info = DbSystemInfo_default
  /\ writer = NoWriter
  /\ reader = NoReader
  /\ panicked = FALSE
  /\ nsets = 0
  /\ nwrites = 0
  /\ result = NoResult
  /\ stored = <<>>
  /\ chains = <<>>
  /\ events = <<>>
  /\ accessors = <<>>

\* page_manager.get_page(index); result.n is index
GetPage(index) ==
  /\ ~panicked
  /\ Len(accessors) < MaxAccessors
  /\ \E m \in {get_page(PM, index)} :
         /\ file' = m.file
         /\ header' = m.header
         /\ cached_pages' = m.cached_pages
         /\ events' = m.events
  /\ accessors' = Append(accessors, Held(PageAccessor_new(index)))
  /\ result' = [NoResult EXCEPT !.op = "get_page", !.n = index]
  /\ UNCHANGED <<pad, system_info, writer, reader, panicked, nsets, nwrites,
                 stored, chains>>

\* page_manager.get_page_with_free_blocks(start_index); result.n is the index
\* of the accessor returned, result.value holds start_index
GetPageWithFreeBlocks(start_index) ==
  /\ ~panicked
  /\ Len(accessors) < MaxAccessors
  /\ \E g \in {get_page_with_free_blocks(PM, start_index)} :
         /\ file' = g.m.file
         /\ header' = g.m.header
         /\ cached_pages' = g.m.cached_pages
         /\ events' = g.m.events
         /\ accessors' = Append(accessors, Held(g.acc))
         /\ result' = [NoResult EXCEPT !.op = "get_page_with_free_blocks",
                                       !.n = g.acc.index,
                                       !.value = <<start_index>>]
  /\ UNCHANGED <<pad, system_info, writer, reader, panicked, nsets, nwrites,
                 stored, chains>>

\* accessors[k].acc.set_block_data(index, data, offset); result.n is index,
\* result.value holds k, result.ok is what PageAccessor.has_changes became
SetBlockData(k, index, data, offset) ==
  /\ ~panicked
  /\ accessors[k].held
  /\ nwrites < MaxBlockWrites
  /\ nwrites' = nwrites + 1
  /\ \E x \in {PageAccessor_set_block_data(PM, accessors[k].acc, index, data, offset)} :
         /\ file' = x.m.file
         /\ header' = x.m.header
         /\ cached_pages' = x.m.cached_pages
         /\ events' = x.m.events
         /\ panicked' = x.m.panic
         /\ accessors' =
              [accessors EXCEPT ![k] =
                 [acc |-> x.acc, held |-> TRUE, calls |-> accessors[k].calls + 1,
                  wrote |-> \/ accessors[k].wrote
                            \/ x.m.cached_pages[x.acc.index].blocks
                                 # cached_pages[x.acc.index].blocks]]
         /\ result' = [NoResult EXCEPT !.op = "set_block_data", !.n = index,
                                       !.value = <<k>>, !.ok = x.acc.has_changes]
  /\ UNCHANGED <<pad, system_info, writer, reader, nsets, stored, chains>>

\* accessors[k].acc goes out of scope; result.value holds k
ReleaseAccessor(k) ==
  /\ ~panicked
  /\ accessors[k].held
  /\ \E m \in {PageAccessor_commit(PM, accessors[k].acc)} :
         /\ file' = m.file
         /\ header' = m.header
         /\ cached_pages' = m.cached_pages
         /\ events' = m.events
  /\ accessors' = [accessors EXCEPT ![k].held = FALSE]
  /\ result' = [NoResult EXCEPT !.op = "release", !.value = <<k>>]
  /\ UNCHANGED <<pad, system_info, writer, reader, panicked, nsets, nwrites,
                 stored, chains>>

\* the blocks a user writes of the page of accessors[k]: the first free one,
\* as the chain writer does, and the first one
BlockChoices(k) ==
  {0, Min(cached_pages[accessors[k].acc.index].first_free_block,
          PAGE_BLOCK_COUNT - 1)}

NextPages ==
  \/ \E index \in PageIndexes : GetPage(index)
  \/ \E start_index \in PageIndexes : GetPageWithFreeBlocks(start_index)
  \/ \E k \in DOMAIN accessors :
       \E index \in BlockChoices(k), w \in BlockWrites :
         SetBlockData(k, index, w[1], w[2])
  \/ \E k \in DOMAIN accessors : ReleaseAccessor(k)

PageSpec ==
  InitPages /\ [][NextPages]_vars

\* ------------------------------------------------------------------------
\* Specification BlockSpec: one access to a block of a page, at every block
\* index, offset and length drawn from the sets below
\* ------------------------------------------------------------------------
\* the blocks accessed: the first ones and the last ones of a page
AccessIndexes ==
  {0, 1, PAGE_BLOCK_COUNT - 2, PAGE_BLOCK_COUNT - 1}

\* the offsets into the block: its start, inside the payload, the start of
\* the successor pointer, the last byte and the end of the block
AccessOffsets ==
  {0, 1, BLOCK_ADDRESS_SIZE, BLOCK_DATA_SIZE, BLOCK_SIZE - 1, BLOCK_SIZE}

\* the lengths asked for: none, a byte, a pointer, a payload, a block
AccessLengths ==
  {0, 1, BLOCK_ADDRESS_SIZE, BLOCK_DATA_SIZE, BLOCK_SIZE}

\* an accessor to page 0 of the file left by the earlier run; result holds
\* the arguments of the access to come: n = index, key = <<offset, length>>
InitBlocks ==
  /\ pad = 0
  /\ \E m \in {get_page(PageManagerImpl_new(AlmostFull.file), 0)} :
       /\ file = m.file
       /\ header = m.header
       /\ cached_pages = m.cached_pages
  /\ system_info = DbSystemInfo_default
  /\ writer = NoWriter
  /\ reader = NoReader
  /\ panicked = FALSE
  /\ nsets = 0
  /\ nwrites = 0
  /\ result \in {[NoResult EXCEPT !.op = "access", !.n = index,
                                  !.key = <<offset, length>>] :
                   index \in AccessIndexes, offset \in AccessOffsets,
                   length \in AccessLengths}
  /\ stored = <<>>
  /\ chains = <<>>
  /\ events = <<>>
  /\ accessors = <<Held(PageAccessor_new(0))>>

\* accessors[1].acc.get_block_data(index, offset, length); result.ok tells
\* that the call returned, result.value is the slice it returned
GetBlockData ==
  /\ result.op = "access"
  /\ \E d \in {PageAccessor_get_block_data(PM, accessors[1].acc, result.n,
                                            result.key[1], result.key[2])} :
       /\ panicked' = d.panic
       /\ result' = [result EXCEPT !.op = "get_block_data", !.ok = ~d.panic,
                                   !.value = IF d.panic THEN <<>> ELSE d.data]
  /\ UNCHANGED <<pad, file, header, cached_pages, system_info, writer, reader,
                 nsets, nwrites, stored, chains, events, accessors>>

\* accessors[1].acc.set_block_data(index, data, offset) with data of length
\* zero bytes; result.ok tells that the call returned
WriteBlockData ==
  /\ result.op = "access"
  /\ \E x \in {PageAccessor_set_block_data(PM, accessors[1].acc, result.n,
                                            Zeros(result.key[2]), result.key[1])} :
       /\ cached_pages' = x.m.cached_pages
       /\ panicked' = x.m.panic
       /\ accessors' = <<[accessors[1] EXCEPT !.acc = x.acc, !.calls = 1]>>
       /\ result' = [result EXCEPT !.op = "set_block_data", !.ok = ~x.m.panic]
  /\ UNCHANGED <<pad, file, header, system_info, writer, reader, nsets, nwrites,
                 stored, chains, events>>

NextBlocks ==
  \/ GetBlockData
  \/ WriteBlockData

BlockSpec ==
  InitBlocks /\ [][NextBlocks]_vars

\* ------------------------------------------------------------------------
\* Views of the state used by the properties
\* ------------------------------------------------------------------------
\* what a caller sees of the outcome g of Database::get
ViewOf(g) ==
  [panic |-> g.m.panic, some |-> g.some, value |-> g.value]

\* what db.get(key) returns in the state with page manager m
GetView(m, si, key) ==
  ViewOf(Database_get(m, si, key))

\* the current image of page index: cached, else in the file, else fresh
PageImage(m, index) ==
  IF IsCached(m, index) THEN m.cached_pages[index]
  ELSE IF index < Len(m.file.pages) THEN m.file.pages[index + 1]
  ELSE Page_new

\* the pages that exist in the cache or in the file, and the first one after
KnownPages(m) ==
  0..Max(Len(m.file.pages),
         IF DOMAIN m.cached_pages = {} THEN 0
         ELSE 1 + CHOOSE i \in DOMAIN m.cached_pages :
                      \A j \in DOMAIN m.cached_pages : j <= i)

\* block a is Free in the file f
FreeInFile(f, a) ==
  \/ a.page_index >= Len(f.pages)
  \/ f.pages[a.page_index + 1].block_states[a.block_index + 1] = BlockState_Free

\* the successor pointer stored in block a
NextBlock(m, a) ==
  BytesBlockAddress(SubSeq(PageImage(m, a.page_index).blocks[a.block_index + 1],
                           BLOCK_DATA_SIZE + 1, BLOCK_SIZE))

\* payload byte o of block a
PayloadByte(m, a, o) ==
  PageImage(m, a.page_index).blocks[a.block_index + 1][o + 1]

\* following successor pointers from the first of blocks visits exactly
\* blocks, in order, and then reaches the invalid pointer
WalkIs(m, blocks) ==
  /\ blocks # <<>>
  /\ \A i \in 1..(Len(blocks) - 1) : NextBlock(m, blocks[i]) = blocks[i + 1]
  /\ NextBlock(m, blocks[Len(blocks)]) = BlockAddress_invalid

\* the blocks of a sequence in the order of their first occurrence
Distinct(blocks) ==
  LET keep == {i \in DOMAIN blocks : \A j \in 1..(i - 1) : blocks[j] # blocks[i]}
  IN  [k \in 1..Cardinality(keep) |->
         blocks[CHOOSE i \in keep : Cardinality({j \in keep : j <= i}) = k]]

\* ------------------------------------------------------------------------
\* Properties of the store (specification Spec)
\* ------------------------------------------------------------------------
\* C1: a get of a key returns exactly the value its first set call stored,
\* whatever was set and read before.
C1_GetReturnsFirstValue ==
  (result.op = "get" /\ result.key \in DOMAIN stored)
    => (~panicked /\ result.ok /\ result.value = stored[result.key])

\* C3: a set of a key that was set before is a no-op: the file, the pages
\* header, the system header and every cached page image stay as they are, no
\* chain is written, and get still returns the value of the first set.
C3_DuplicateSetIsNoOp ==
  [][(nsets' = nsets + 1 /\ result'.key \in DOMAIN stored)
       => /\ file' = file
          /\ header' = header
          /\ system_info' = system_info
          /\ \A i \in DOMAIN cached_pages :
               i \in DOMAIN cached_pages' /\ cached_pages'[i] = cached_pages[i]
          /\ chains' = chains
          /\ ~panicked'
          /\ GetView(PM', system_info', result'.key)
               = [panic |-> FALSE, some |-> TRUE, value |-> stored[result'.key]]]_vars

\* C4: reopening the file gives, for every key, the get result the store
\* gave before the close, and a set performed right after the reopen writes
\* only into blocks that were free in the file and that no earlier record
\* was written to.
C4_ReopenPreservesStore ==
  [][/\ result'.op = "open"
          => \A key \in Keys :
               GetView(PM', system_info', key) = GetView(PM, system_info, key)
     /\ (result'.op = "set" /\ result'.prev = "open" /\ Len(chains') > Len(chains))
          => \A i \in 1..Len(chains'[Len(chains')].filled) :
               /\ FreeInFile(file, chains'[Len(chains')].filled[i])
               /\ \A j \in 1..Len(chains) :
                    \A k \in 1..Len(chains[j].filled) :
                      chains[j].filled[k] # chains'[Len(chains')].filled[i]]_vars

\* a set that wrote a record right after a reopen of a store holding a record
C4_Witness ==
  /\ result.op = "set" /\ result.prev = "open" /\ result.ok
  /\ Cardinality(DOMAIN stored) >= 2

\* C5: get returns absent for every key that no set call was given, whatever
\* other keys were set, keys as long as a stored key included.
C5_AbsentKeyIsAbsent ==
  ~panicked
    => \A key \in Keys \ DOMAIN stored :
         GetView(PM, system_info, key)
           = [panic |-> FALSE, some |-> FALSE, value |-> <<>>]

\* C7: between public operations first_page_with_free_blocks is at most the
\* index of every page that has a free block.
C7_FirstPageWithFreeBlocksIsLowerBound ==
  (~writer.alive /\ ~reader.alive)
    => \A index \in KnownPages(PM) :
         has_free_blocks(PageImage(PM, index)) => header <= index

\* page 0 is full and the header has moved on to page 1
C7_Witness ==
  /\ ~writer.alive /\ ~reader.alive /\ ~panicked
  /\ header = 1
  /\ ~has_free_blocks(PageImage(PM, 0))
  /\ has_free_blocks(PageImage(PM, 1))

\* the RecordHeader at the start of block a
RecordHeaderAt(m, a) ==
  BytesRecordHeader(SubSeq(PageImage(m, a.page_index).blocks[a.block_index + 1],
                           1, RECORD_HEADER_SIZE))

RECURSIVE RecordWalk(_, _, _)
\* the record addresses met by following next_record from a, at most n of them
RecordWalk(m, a, n) ==
  IF a = BlockAddress_invalid \/ n = 0 THEN <<>>
  ELSE <<a>> \o RecordWalk(m, RecordHeaderAt(m, a).next_record, n - 1)

\* the chains of the set calls that wrote a record, in the order of the calls
WrittenRecords(cs) ==
  SelectSeq(cs, LAMBDA e : ~e.failed)

\* C20: after every set call, following next_record from first_record visits
\* one record for each distinct key set so far, in the order of their first
\* set calls, and ends at last_record, whose next_record is invalid; each
\* record carries the key_size and data_size it was written with; and the
\* call changes no byte of an earlier record but the next_record field of the
\* previous last record.
C20_RecordListIsTheKeysInOrder ==
  [][(nsets' = nsets + 1 /\ ~panicked')
       => LET walk == RecordWalk(PM', system_info'.first_record, MaxSets + 2)
              written == WrittenRecords(chains')
          IN  /\ Len(walk) = Cardinality(DOMAIN stored')
              /\ Len(walk) = Len(written)
              /\ \A i \in DOMAIN walk :
                   /\ walk[i] = written[i].start_address
                   /\ RecordHeaderAt(PM', walk[i]).key_size
                        = BytesRecordHeader(written[i].data).key_size
                   /\ RecordHeaderAt(PM', walk[i]).data_size
                        = BytesRecordHeader(written[i].data).data_size
              /\ walk # <<>>
                   => /\ walk[Len(walk)] = system_info'.last_record
                      /\ RecordHeaderAt(PM', walk[Len(walk)]).next_record
                           = BlockAddress_invalid
              /\ \A j \in DOMAIN chains :
                   \A k \in DOMAIN chains[j].filled :
                     LET a == chains[j].filled[k]
                         from == IF ~chains[j].failed /\ k = 1
                                 THEN BLOCK_ADDRESS_SIZE + 1 ELSE 1
                     IN  SubSeq(PageImage(PM', a.page_index).blocks[a.block_index + 1],
                                from, BLOCK_SIZE)
                           = SubSeq(PageImage(PM, a.page_index).blocks[a.block_index + 1],
                                    from, BLOCK_SIZE)]_vars

\* ------------------------------------------------------------------------
\* Properties of the chains (specification ChainSpec)
\* ------------------------------------------------------------------------
\* the successor table f over the blocks B, composed with itself
Twice(f, B) ==
  [b \in B |-> IF f[b] \in B THEN f[f[b]] ELSE f[b]]

RECURSIVE Hops(_, _, _)
\* f composed with itself until it makes at least Cardinality(B) steps
Hops(f, B, n) ==
  IF n >= Cardinality(B) THEN f ELSE Hops(Twice(f, B), B, 2 * n)

\* no walk along successor pointers stays within blocks for ever
Acyclic(m, blocks) ==
  LET B == {blocks[i] : i \in DOMAIN blocks}
      far == Hops([b \in B |-> NextBlock(m, b)], B, 1)
  IN  \A b \in B : far[b] \notin B

\* what a caller sees of the outcome x of PageReader::read
ReadView(x) ==
  [panic |-> x.m.panic, ret |-> x.ret, data |-> x.data]

\* what a fresh reader at start_address returns for one read of n bytes
ReadBack(m, start_address, n) ==
  ReadView(PageReader_read(PageReader_new(m, start_address), n))

\* the number of blocks a chain of n bytes takes
BlocksFor(n) ==
  Max(1, (n + BLOCK_DATA_SIZE - 1) \div BLOCK_DATA_SIZE)

\* C2: n bytes written with one write call through a fresh writer, flushed,
\* are read back by a reader started at the writer's start_address: the read
\* returns n bytes equal to the bytes written, for every n, 0 included.
C2_ChainRoundTrip ==
  \A i \in 1..Len(chains) :
    chains[i].calls = 1
      => /\ ~chains[i].failed
         /\ (~writer.alive /\ ~reader.alive /\ ~panicked)
              => ReadBack(PM, chains[i].start_address, Len(chains[i].data))
                   = [panic |-> FALSE, ret |-> Len(chains[i].data),
                      data |-> chains[i].data]

\* C6: every cached page's first_free_block is the smallest index of a Free
\* block, or INVALID_BLOCK_INDEX when the page has none.
C6_FirstFreeBlockIsSmallestFree ==
  \A index \in DOMAIN cached_pages :
    LET p == cached_pages[index]
        free == {i \in 0..(PAGE_BLOCK_COUNT - 1) : p.block_states[i + 1] = BlockState_Free}
    IN  /\ free = {} => p.first_free_block = INVALID_BLOCK_INDEX
        /\ free # {} => /\ p.first_free_block \in free
                        /\ \A i \in free : p.first_free_block <= i

\* a full page and a page whose first blocks are taken are both cached
C6_Witness ==
  /\ \E index \in DOMAIN cached_pages :
       cached_pages[index].first_free_block = INVALID_BLOCK_INDEX
  /\ \E index \in DOMAIN cached_pages :
       /\ cached_pages[index].first_free_block > 0
       /\ cached_pages[index].first_free_block < INVALID_BLOCK_INDEX

\* C8: from every start_address a writer returned, the successor pointers
\* lead through exactly the blocks that writer filled, in the order it
\* filled them, and then to the invalid pointer: for a writer that has moved
\* on to a next block, and for every released writer whatever happens later.
C8_ChainHeadsStayWalkable ==
  /\ (writer.alive /\ writer.calls >= 1 /\ Len(writer.w.filled) >= 2)
       => /\ writer.w.start_address = writer.w.filled[1]
          /\ WalkIs(PM, Distinct(writer.w.filled))
  /\ \A i \in 1..Len(chains) :
       ~chains[i].failed
         => /\ chains[i].start_address = chains[i].filled[1]
            /\ WalkIs(PM, Distinct(chains[i].filled))

\* C9: after a write call of a writer and after its release the successor
\* pointers of the blocks of its chain form no cycle, and none names its own
\* block, whatever bytes were written.
C9_ChainIsAcyclic ==
  /\ (writer.alive /\ writer.calls >= 1 /\ Len(writer.w.filled) >= 2)
       => Acyclic(PM, writer.w.filled)
  /\ \A i \in 1..Len(chains) :
       ~chains[i].failed => Acyclic(PM, chains[i].filled)

\* C10: the chain of a released writer that wrote n bytes has
\* max(1, ceil(n / BLOCK_DATA_SIZE)) blocks, the last one pointing to the
\* invalid address, and input byte j is at payload offset j mod BLOCK_DATA_SIZE
\* of block j div BLOCK_DATA_SIZE of the chain.
C10_ChainLayout ==
  \A i \in 1..Len(chains) :
    ~chains[i].failed
      => LET e == chains[i]
         IN  /\ Len(e.filled) = BlocksFor(Len(e.data))
             /\ WalkIs(PM, e.filled)
             /\ \A j \in 0..(Len(e.data) - 1) :
                  PayloadByte(PM, e.filled[j \div BLOCK_DATA_SIZE + 1],
                              j % BLOCK_DATA_SIZE) = e.data[j + 1]

\* the chain the live reader was started on
ReaderChain ==
  chains[reader.chain]

\* the payload bytes of a chain of well-linked blocks
ChainPayload(e) ==
  BLOCK_DATA_SIZE * Len(e.filled)

\* C11: on a reader at the start of a well-linked chain, skip(s) followed by
\* a read of n bytes, s + n within the payload of the chain, completes and
\* yields the bytes that one read of s + n bytes yields after its first s,
\* also when s is a multiple of BLOCK_DATA_SIZE.
C11_SkipThenReadIsReadAndDiscard ==
  [][(/\ reader.alive /\ reader.calls = 1
      /\ result.op = "skip" /\ result.ok
      /\ result'.op = "read"
      /\ WalkIs(PM, ReaderChain.filled)
      /\ result.n + result'.n <= ChainPayload(ReaderChain))
       => /\ result'.ok
          /\ LET whole == ReadBack(PM, ReaderChain.start_address,
                                   result.n + result'.n)
             IN  /\ ~whole.panic
                 /\ result'.value
                      = SubSeq(whole.data, result.n + 1, result.n + result'.n)]_vars

\* the payload bytes of the blocks, in order
ChainBytes(m, blocks) ==
  [j \in 1..(BLOCK_DATA_SIZE * Len(blocks)) |->
     PayloadByte(m, blocks[(j - 1) \div BLOCK_DATA_SIZE + 1],
                 (j - 1) % BLOCK_DATA_SIZE)]

\* the number of payload bytes of its chain the live reader has passed
ReaderPosition ==
  LET at == BlockAddress_new(reader.r.current_page.index, reader.r.block_index)
      k == CHOOSE i \in 1..Len(ReaderChain.filled) : ReaderChain.filled[i] = at
  IN  BLOCK_DATA_SIZE * (k - 1) + reader.r.block_offset

\* the payload bytes between the cursor of the live reader and the end of
\* its chain
ReaderRemaining ==
  ChainPayload(ReaderChain) - ReaderPosition

\* C12: every read on a reader over a well-linked chain returns the smaller
\* of the buffer length and the number of payload bytes left, and copies
\* exactly those bytes; a read on an exhausted chain returns 0 and does not
\* fail.
C12_ReadReturnsWhatIsLeft ==
  [][(/\ reader.alive /\ result'.op = "read"
      /\ WalkIs(PM, ReaderChain.filled))
       => LET x == PageReader_read([m |-> PM, r |-> reader.r], result'.n)
              k == Min(result'.n, ReaderRemaining)
          IN  /\ ~x.m.panic
              /\ result'.ok
              /\ x.ret = k
              /\ x.data = SubSeq(ChainBytes(PM, ReaderChain.filled),
                                 ReaderPosition + 1, ReaderPosition + k)
              /\ result'.value = x.data]_vars

\* C13: skip(n) on a reader over a well-linked chain returns the "Skip too
\* big" error exactly when fewer than n payload bytes are left; when it
\* succeeds the cursor is n payload bytes further; the file, the pages header
\* and every page image stay as they are in both cases.
C13_SkipFailsExactlyPastTheEnd ==
  [][(/\ reader.alive /\ result'.op = "skip"
      /\ WalkIs(PM, ReaderChain.filled))
       => LET x == PageReader_skip([m |-> PM, r |-> reader.r], result'.n)
          IN  /\ ~x.m.panic /\ ~panicked'
              /\ x.err <=> ReaderRemaining < result'.n
              /\ result'.ok <=> ~x.err
              /\ ~x.err => ReaderPosition' = ReaderPosition + result'.n
              /\ file' = file
              /\ header' = header
              /\ \A index \in KnownPages(PM') :
                   PageImage(PM', index) = PageImage(PM, index)]_vars

\* a skip has failed on a reader that an earlier call had moved to the end
\* of its chain
C13_Witness ==
  /\ result.op = "skip" /\ ~result.ok /\ ~panicked
  /\ reader.alive /\ reader.calls = 2
  /\ WalkIs(PM, ReaderChain.filled)
  /\ ReaderRemaining = 0

\* the blocks each writer chose, in order: the dropped writers, then the
\* live one
Chosen ==
  [i \in 1..(Len(chains) + 1) |->
     IF i <= Len(chains) THEN chains[i].filled
     ELSE IF writer.alive THEN writer.w.filled ELSE <<>>]

\* C15: no block is chosen twice: the start block of a writer and the blocks
\* it advances to differ from each other and from every block an earlier
\* writer chose, whatever bytes are written.
C15_NoBlockIsChosenTwice ==
  \A i \in DOMAIN Chosen, j \in DOMAIN Chosen :
    \A p \in DOMAIN Chosen[i], q \in DOMAIN Chosen[j] :
      (i # j \/ p # q) => Chosen[i][p] # Chosen[j][q]

\* C17: a write call that takes the writer to another page releases the
\* accessor of the old page, committing that page, before it asks the page
\* manager for the accessor of the new page.
C17_OldPageReleasedBeforeNewPageTaken ==
  (result.op = "write" /\ writer.alive)
    => \A p \in DOMAIN events :
         (events[p].e = "get_page" /\ events[p].index = writer.w.current_page.index)
           => \E q \in 1..(p - 1) :
                /\ events[q].e = "commit"
                /\ events[q].index < writer.w.current_page.index

\* ------------------------------------------------------------------------
\* Properties of the page manager (specification PageSpec)
\* ------------------------------------------------------------------------
\* C14: get_page_with_free_blocks(start_index) returns an accessor to the
\* smallest page index from start_index on whose current page image has a
\* free block, also while an accessor that filled a cached page is still
\* held.
C14_SearchFindsFirstPageWithFreeBlocks ==
  [][result'.op = "get_page_with_free_blocks"
       => /\ result'.n >= result'.value[1]
          /\ has_free_blocks(PageImage(PM, result'.n))
          /\ \A i \in result'.value[1]..(result'.n - 1) :
               ~has_free_blocks(PageImage(PM, i))]_vars

\* C16: every set_block_data(block_index, data, offset) that returns leaves
\* block_states[block_index] Busy, also when data equals the bytes the block
\* holds, and reports a change exactly when a byte of the block changed.
C16_SetBlockDataMarksBusy ==
  [][(result'.op = "set_block_data" /\ ~panicked')
       => LET k == result'.value[1]
              index == accessors[k].acc.index
          IN  /\ cached_pages'[index].block_states[result'.n + 1] = BlockState_Busy
              /\ ~accessors[k].acc.has_changes
                   => (result'.ok <=>
                         cached_pages'[index].blocks[result'.n + 1]
                           # cached_pages[index].blocks[result'.n + 1])]_vars

\* the accessor the last release let go, as it was before
Released ==
  accessors[result.value[1]]

\* C18: releasing an accessor writes its page to the file exactly when a
\* set_block_data call made through it changed a byte; an accessor used only
\* for reads, or for writes of the bytes already there, leaves the file and
\* the pages header as they are.
C18_ReleaseCommitsExactlyDirtyPages ==
  [][result'.op = "release"
       => LET a == accessors[result'.value[1]]
              written == \E p \in DOMAIN events' :
                           /\ events'[p].e = "commit"
                           /\ events'[p].index = a.acc.index
          IN  /\ written <=> a.wrote
              /\ ~a.wrote => (file' = file /\ header' = header)
              /\ a.wrote => file'.pages[a.acc.index + 1] = cached_pages[a.acc.index]]_vars

\* an accessor through which the bytes already in a block were written has
\* been released without a write to the file, after an accessor that changed
\* a byte was released and committed its page
C18_Witness ==
  /\ result.op = "release" /\ ~panicked
  /\ Released.calls >= 1 /\ ~Released.wrote /\ ~Released.held
  /\ \A p \in DOMAIN events : events[p].e # "commit"
  /\ \E k \in DOMAIN accessors :
       /\ accessors[k].wrote /\ ~accessors[k].held
       /\ file.len >= get_page_address(accessors[k].acc.index) + PAGE_SIZE

\* C19: whenever the search for a page with free blocks reads the first byte
\* of a page from the file, every page that is full in memory has
\* INVALID_BLOCK_INDEX in that byte in the file: a page that was filled is
\* committed before the search looks at the file again.
C19_FullPagesArePersistedBeforeProbe ==
  \A p \in DOMAIN events :
    (events[p].e = "search" /\ events[p].probed # {})
      => events[p].unsaved = {}

\* ------------------------------------------------------------------------
\* Borrows of the page manager and of the page images (specification Spec)
\* ------------------------------------------------------------------------
\* C21: during any sequence of store operations no RefCell refuses a borrow:
\* no get_page, commit on release, search for a free page or patch of the
\* previous block writes to a page image, or enters the page manager
\* mutably, while another borrow of that page image or of the page manager
\* is alive
C21_NoBorrowConflict ==
  \A p \in DOMAIN events : events[p].e # "conflict"

\* a commit on release searched for the next free page, and borrowed a cached
\* page, while it held the page manager and the committed page mutably
C21_Witness ==
  /\ ~panicked
  /\ \E p \in DOMAIN events :
       /\ events[p].e = "search"
       /\ events[p].held # {}
       /\ events[p].viewed # {}

\* ------------------------------------------------------------------------
\* Properties of one block access (specification BlockSpec)
\* ------------------------------------------------------------------------
\* C24: for every block index below 63 and every offset up to 64, a read of
\* a block with length 0 returns the bytes from offset to the end of the
\* block (BLOCK_SIZE - offset of them) and does not fail; a read or a write
\* fails exactly when its offset + length is greater than BLOCK_SIZE.
C24_LengthZeroIsTheRemainder ==
  result.op \in {"get_block_data", "set_block_data"}
    => LET offset == result.key[1]
           length == result.key[2]
       IN  /\ (result.op = "get_block_data" /\ length = 0)
                => /\ result.ok
                   /\ result.value
                        = SubSeq(cached_pages[0].blocks[result.n + 1],
                                 offset + 1, BLOCK_SIZE)
           /\ length > 0 => (~result.ok <=> offset + length > BLOCK_SIZE)

\* ------------------------------------------------------------------------
\* One write against two (specification ChainSpec)
\* ------------------------------------------------------------------------
\* the positions at which buf is cut into two parts that are not empty: after
\* its first byte, at the end of the payload of a block, a byte after that
Cuts(buf) ==
  {k \in {1, BLOCK_DATA_SIZE, BLOCK_DATA_SIZE + 1} : k < Len(buf)}

\* writer.write(&buf[..k]) followed by writer.write(&buf[k..])
SplitWrite(c, buf, k) ==
  LET first == PageWriter_write(c, SubSeq(buf, 1, k))
  IN  IF first.m.panic THEN first
      ELSE PageWriter_write(first, SubSeq(buf, k + 1, Len(buf)))

\* two writers that started from the same state left the same chain: the
\* same page images (payload bytes, successor pointers, block states), the
\* same blocks entered, the same position in the last block
SameChain(a, b) ==
  /\ a.m.cached_pages = b.m.cached_pages
  /\ a.w.filled = b.w.filled
  /\ a.w.block_address = b.w.block_address
  /\ a.w.block_offset = b.w.block_offset

\* C23: whenever a new chain writer is given a byte sequence in one write
\* call, the call completes without failure, and so do two consecutive write
\* calls with the sequence cut at any position (also exactly at the 56-byte
\* block boundary), and both leave the same chain: the same number of
\* blocks, the same payload bytes, the same successor pointers.
C23_SplittingDoesNotMatter ==
  [][(result'.op = "write" /\ writer.calls = 0 /\ result'.n > 0)
       => LET c == [m |-> PM, w |-> writer.w]
          IN  /\ ~PageWriter_write(c, result'.value).m.panic
              /\ \A k \in Cuts(result'.value) :
                   /\ ~SplitWrite(c, result'.value, k).m.panic
                   /\ SameChain(SplitWrite(c, result'.value, k),
                                PageWriter_write(c, result'.value))]_vars

\* ------------------------------------------------------------------------
\* The frame of a set (specification Spec)
\* ------------------------------------------------------------------------
\* C22: a set of a key that no set call was given before, once it returns,
\* leaves the result of get unchanged for every key stored before, and
\* changes no byte of the blocks of the earlier records but the next_record
\* field at the start of the header block of the previous tail record.
C22_SetOfNewKeyKeepsEarlierRecords ==
  [][(nsets' = nsets + 1 /\ result'.key \notin DOMAIN stored /\ ~panicked')
       => /\ \A k1 \in DOMAIN stored :
               GetView(PM', system_info', k1) = GetView(PM, system_info, k1)
          /\ \A j \in DOMAIN chains :
               \A k \in DOMAIN chains[j].filled :
                 LET a == chains[j].filled[k]
                     from == IF a = system_info.last_record
                             THEN BLOCK_ADDRESS_SIZE + 1 ELSE 1
                 IN  SubSeq(PageImage(PM', a.page_index).blocks[a.block_index + 1],
                            from, BLOCK_SIZE)
                       = SubSeq(PageImage(PM, a.page_index).blocks[a.block_index + 1],
                                from, BLOCK_SIZE)]_vars
====
